---- MODULE Spec2Model ----
(***************************************************************************)
(* GeoVizPy (src/geovizpy.py): the fusion of the CMD resistivity raster    *)
(* onto the DEM points by nearest-neighbour lookup, and the callbacks that *)
(* carry the control events of the drawer (check boxes, sliders, pipeline  *)
(* tree) to the render actors and to ctrl.view_update.                     *)
(*                                                                         *)
(* Python lists keep their 0-based indices: a list of length n is a        *)
(* function on 0..n-1.  Opacities are counted in tenths (10 is 1.0).       *)
(* Each callback is one action; the scene the view reads at each call of   *)
(* ctrl.view_update during the callback is appended to `views`, and `op`   *)
(* names the callback that ran last and its arguments.                     *)
(***************************************************************************)
EXTENDS Integers, Sequences, FiniteSets

\* ---------------------------------------------------------------- bounds
\* len(mesh): the number of profile meshes read (five files in the source)
NumProfiles == 2
\* x coordinates of raster and DEM points: 0..MaxX (y is 0..1)
MaxX == 1
\* number of CMD raster points, at least one
MaxSrc == 2
\* number of DEM points
MaxTgt == 2

Profiles == 0 .. (NumProfiles - 1)
\* pairs a client can send for vel_range / res_range, <<1, 0>> with min > max
RangeVals == {0, 1}
Ranges == RangeVals \X RangeVals
\* opacity values a client can send for mnt_opacity / cmd_opacity (tenths)
OpacityInputs == {-5, 5, 10, 15}
\* identifiers of the three nodes of the pipeline tree, as sent in the event
GroupIds == {"1", "2", "3"}
Points == (0 .. MaxX) \X (0 .. 1)
Resistivities == {5, 50}

VARIABLES
    visibilityList, visibilityDEM, visibilityCMD,   \* state.visibility*
    actor_profile, actor_dem, actor_cmd,            \* the render actors
    mnt_opacity, cmd_opacity, vel_range, res_range, \* slider state
    views,                                          \* scenes seen by view_update in the last callback
    op,                                             \* the last callback and its arguments
    xy_list, array_cmd, xy_dem, cmd_interp,         \* the resampling data
    pc                                              \* "fusion" before the interpolation, "serving" after

sceneVars == <<visibilityList, visibilityDEM, visibilityCMD,
               actor_profile, actor_dem, actor_cmd,
               mnt_opacity, cmd_opacity, vel_range, res_range, views, op>>
dataVars == <<xy_list, array_cmd, xy_dem, cmd_interp>>
vars == <<sceneVars, dataVars, pc>>

\* ------------------------------------------------------------ resampling
\* squared Euclidean distance of two points of the plane
Dist2(p, q) == (p[1] - q[1]) * (p[1] - q[1]) + (p[2] - q[2]) * (p[2] - q[2])

\* The nearest-neighbour query for one target: the points are scanned in
\* index order and the best index so far is kept; on an equal distance the
\* earlier index is kept when keepFirst, the later one otherwise.
RECURSIVE NearestScan(_, _, _, _, _)
NearestScan(pts, t, k, best, keepFirst) ==
    IF k > Len(pts) THEN best
    ELSE LET closer == IF keepFirst
                       THEN Dist2(pts[k], t) < Dist2(pts[best], t)
                       ELSE Dist2(pts[k], t) <= Dist2(pts[best], t)
         IN NearestScan(pts, t, k + 1, IF closer THEN k ELSE best, keepFirst)

\* a lookup that measures the distance along x only
NearestNDInterpolator_x(pts, vals, t, keepFirst) ==
    vals[NearestScan([k \in 1 .. Len(pts) |-> <<pts[k][1], 0>>], <<t[1], 0>>, 2, 1, keepFirst)]

\* interp = NearestNDInterpolator(xy_list, array_cmd); interp(t)
NearestNDInterpolator(pts, vals, t, keepFirst) ==
    vals[NearestScan(pts, t, 2, 1, keepFirst)]

\* ------------------------------------------------------------- the scene
\* mesh.get_data_range('Velocity'), mesh_dem.get_data_range('Resistivity')
VelDataRange == <<0, 1>>
ResDataRange == <<0, 1>>

\* an opacity stored as given
SetOpacity_unclamped(actor, value) == [actor EXCEPT !.opacity = value]

\* vtkProperty.SetOpacity stores the value clamped to [0.0, 1.0]
SetOpacity(actor, value) ==
    [actor EXCEPT !.opacity = IF value < 0 THEN 0 ELSE IF value > 10 THEN 10 ELSE value]

\* vtkActor.SetVisibility
SetVisibility(actor, flag) == [actor EXCEPT !.visibility = flag]

\* mapper.scalar_range = r
SetScalarRange(actor, r) == [actor EXCEPT !.scalar_range = r]

NoOp == [name |-> "none", id |-> "", index |-> -1, visible |-> TRUE,
         value |-> 0, range |-> <<0, 0>>, raised |-> "none"]

\* the mutable scene as one record, so that the callbacks compose
Scene == [visibilityList |-> visibilityList, visibilityDEM |-> visibilityDEM,
          visibilityCMD |-> visibilityCMD, actor_profile |-> actor_profile,
          actor_dem |-> actor_dem, actor_cmd |-> actor_cmd, views |-> <<>>]

\* what the view reads when it is told to update
Snapshot(s) == [visibilityList |-> s.visibilityList, visibilityDEM |-> s.visibilityDEM,
                visibilityCMD |-> s.visibilityCMD, actor_profile |-> s.actor_profile,
                actor_dem |-> s.actor_dem, actor_cmd |-> s.actor_cmd]

\* ctrl.view_update()
view_update(s) == [s EXCEPT !.views = Append(@, Snapshot(s))]

hide_profile(s, num, flag) ==
    view_update([s EXCEPT !.actor_profile[num] = SetVisibility(@, flag)])

hide_DEM(s, flag) ==
    view_update([s EXCEPT !.actor_dem[0] = SetVisibility(@, flag)])

\* the CMD check box acting on the DEM actor
hide_CMD_dem(s, flag) ==
    view_update([s EXCEPT !.actor_dem[0] = SetVisibility(@, flag)])

hide_CMD(s, flag) ==
    view_update([s EXCEPT !.actor_cmd[0] = SetVisibility(@, flag)])

\* a redraw as soon as the state list is dirty, before the actor is set
update_profile_visibility_early(s, index, visibility) ==
    hide_profile(view_update([s EXCEPT !.visibilityList[index] = visibility]), index, visibility)

update_profile_visibility(s, index, visibility) ==
    hide_profile([s EXCEPT !.visibilityList[index] = visibility], index, visibility)

update_DEM_visibility(s, visibility) ==
    hide_DEM([s EXCEPT !.visibilityDEM[0] = visibility], visibility)

update_CMD_visibility(s, visibility) ==
    hide_CMD([s EXCEPT !.visibilityCMD[0] = visibility], visibility)

\* for i in range(len(mesh)): update_profile_visibility(i, _visibility)
RECURSIVE ProfileLoop(_, _, _)
ProfileLoop(s, i, visibility) ==
    IF i >= NumProfiles THEN s
    ELSE ProfileLoop(update_profile_visibility(s, i, visibility), i + 1, visibility)

\* node "1" falling through to the branch of node "2"
visibility_change_through(s, id, visibility) ==
    view_update(LET s1 == IF id = "1" THEN ProfileLoop(s, 0, visibility) ELSE s
                IN IF id \in {"1", "2"}
                   THEN update_CMD_visibility(update_DEM_visibility(s1, visibility), visibility)
                   ELSE s1)

visibility_change(s, id, visibility) ==
    view_update(IF id = "1" THEN ProfileLoop(s, 0, visibility)
                ELSE IF id = "2"
                     THEN update_CMD_visibility(update_DEM_visibility(s, visibility), visibility)
                     ELSE s)

\* for j in range(len(mesh)): actor_profile[j].mapper.scalar_range = vel_range
set_vel_range(s, r) ==
    view_update([s EXCEPT !.actor_profile = [j \in Profiles |-> SetScalarRange(@[j], r)]])

set_res_range(s, r) ==
    view_update([s EXCEPT !.actor_cmd[0] = SetScalarRange(@, r)])

update_opacity_dem(s, value) ==
    view_update([s EXCEPT !.actor_dem[0] = SetOpacity(@, value)])

update_opacity_cmd(s, value) ==
    view_update([s EXCEPT !.actor_cmd[0] = SetOpacity(@, value)])

\* the scene after a callback becomes the state
Commit(s) ==
    /\ visibilityList' = s.visibilityList
    /\ visibilityDEM' = s.visibilityDEM
    /\ visibilityCMD' = s.visibilityCMD
    /\ actor_profile' = s.actor_profile
    /\ actor_dem' = s.actor_dem
    /\ actor_cmd' = s.actor_cmd
    /\ views' = s.views

\* ------------------------------------------------------------------ Init
\* the scene built by the layout block, the sliders at their defaults
InitScene ==
    /\ visibilityList = [i \in Profiles |-> TRUE]
    /\ visibilityDEM = [i \in {0} |-> TRUE]
    /\ visibilityCMD = [i \in {0} |-> TRUE]
    /\ actor_profile = [i \in Profiles |->
                          [visibility |-> TRUE, opacity |-> 10, scalar_range |-> VelDataRange]]
    /\ actor_dem = [i \in {0} |-> [visibility |-> TRUE, opacity |-> 7]]
    /\ actor_cmd = [i \in {0} |->
                      [visibility |-> TRUE, opacity |-> 10, scalar_range |-> ResDataRange]]
    /\ mnt_opacity = 10
    /\ cmd_opacity = 10
    /\ vel_range = VelDataRange
    /\ res_range = ResDataRange
    /\ views = <<>>
    /\ op = NoOp

\* the server once the data are fused: a raster of two points, two DEM points
Init ==
    /\ InitScene
    /\ xy_list = <<<<0, 0>>, <<MaxX, 0>>>>
    /\ array_cmd = <<5, 50>>
    /\ xy_dem = <<<<0, 1>>, <<MaxX, 1>>>>
    /\ cmd_interp = <<5, 50>>
    /\ pc = "serving"

\* --------------------------------------------------------------- actions
\* check box of profile index: change=(update_profile_visibility, "[i, $event]")
UpdateProfileVisibility ==
    /\ pc = "serving"
    /\ \E index \in Profiles, visibility \in BOOLEAN :
          /\ Commit(update_profile_visibility(Scene, index, visibility))
          /\ op' = [NoOp EXCEPT !.name = "update_profile_visibility",
                                !.index = index, !.visible = visibility]
    /\ UNCHANGED <<mnt_opacity, cmd_opacity, vel_range, res_range, dataVars, pc>>

UpdateDEMVisibility ==
    /\ pc = "serving"
    /\ \E visibility \in BOOLEAN :
          /\ Commit(update_DEM_visibility(Scene, visibility))
          /\ op' = [NoOp EXCEPT !.name = "update_DEM_visibility", !.visible = visibility]
    /\ UNCHANGED <<mnt_opacity, cmd_opacity, vel_range, res_range, dataVars, pc>>

UpdateCMDVisibility ==
    /\ pc = "serving"
    /\ \E visibility \in BOOLEAN :
          /\ Commit(update_CMD_visibility(Scene, visibility))
          /\ op' = [NoOp EXCEPT !.name = "update_CMD_visibility", !.visible = visibility]
    /\ UNCHANGED <<mnt_opacity, cmd_opacity, vel_range, res_range, dataVars, pc>>

\* eye icon of a node of the pipeline tree
VisibilityChange ==
    /\ pc = "serving"
    /\ \E id \in GroupIds, visibility \in BOOLEAN :
          /\ Commit(visibility_change(Scene, id, visibility))
          /\ op' = [NoOp EXCEPT !.name = "visibility_change", !.id = id, !.visible = visibility]
    /\ UNCHANGED <<mnt_opacity, cmd_opacity, vel_range, res_range, dataVars, pc>>

\* @state.change("vel_range"): the client sets vel_range to another value
SetVelRange ==
    /\ pc = "serving"
    /\ \E r \in Ranges :
          /\ r # vel_range
          /\ vel_range' = r
          /\ Commit(set_vel_range(Scene, r))
          /\ op' = [NoOp EXCEPT !.name = "set_vel_range", !.range = r]
    /\ UNCHANGED <<mnt_opacity, cmd_opacity, res_range, dataVars, pc>>

SetResRange ==
    /\ pc = "serving"
    /\ \E r \in Ranges :
          /\ r # res_range
          /\ res_range' = r
          /\ Commit(set_res_range(Scene, r))
          /\ op' = [NoOp EXCEPT !.name = "set_res_range", !.range = r]
    /\ UNCHANGED <<mnt_opacity, cmd_opacity, vel_range, dataVars, pc>>

UpdateOpacityDem ==
    /\ pc = "serving"
    /\ \E value \in OpacityInputs :
          /\ value # mnt_opacity
          /\ mnt_opacity' = value
          /\ Commit(update_opacity_dem(Scene, value))
          /\ op' = [NoOp EXCEPT !.name = "update_opacity_dem", !.value = value]
    /\ UNCHANGED <<cmd_opacity, vel_range, res_range, dataVars, pc>>

UpdateOpacityCmd ==
    /\ pc = "serving"
    /\ \E value \in OpacityInputs :
          /\ value # cmd_opacity
          /\ cmd_opacity' = value
          /\ Commit(update_opacity_cmd(Scene, value))
          /\ op' = [NoOp EXCEPT !.name = "update_opacity_cmd", !.value = value]
    /\ UNCHANGED <<mnt_opacity, vel_range, res_range, dataVars, pc>>

Next ==
    \/ UpdateProfileVisibility
    \/ UpdateDEMVisibility
    \/ UpdateCMDVisibility
    \/ VisibilityChange
    \/ SetVelRange
    \/ SetResRange
    \/ UpdateOpacityDem
    \/ UpdateOpacityCmd

Spec == Init /\ [][Next]_vars

\* ------------------------------------------- the fusion step on its own
\* non-empty sequences of at most n elements of S, and possibly empty ones
SeqsFrom(S, lo, n) == UNION {[1 .. m -> S] : m \in lo .. n}

\* any raster of 1..MaxSrc points with one value each, any DEM points
InitResample ==
    /\ InitScene
    /\ xy_list \in SeqsFrom(Points, 1, MaxSrc)
    /\ array_cmd \in [1 .. Len(xy_list) -> Resistivities]
    /\ xy_dem \in SeqsFrom(Points, 0, MaxTgt)
    /\ cmd_interp = <<>>
    /\ pc = "fusion"

\* cmd_interp = interp(xy_dem[:,0], xy_dem[:,1]): one query per DEM point;
\* which of several equally near raster points answers is left to the tree
Interpolate ==
    /\ pc = "fusion"
    /\ \E keepFirst \in [1 .. Len(xy_dem) -> BOOLEAN] :
          cmd_interp' = [i \in 1 .. Len(xy_dem) |->
                           NearestNDInterpolator(xy_list, array_cmd, xy_dem[i], keepFirst[i])]
    /\ pc' = "serving"
    /\ UNCHANGED <<sceneVars, xy_list, array_cmd, xy_dem>>

NextResample == Interpolate

SpecResample == InitResample /\ [][NextResample]_vars

\* ================================================================ claims
\* the layers of the group of a pipeline node, as seen in scene snapshot v
GroupAt(v, id, visible) ==
    /\ id = "1" => \A i \in Profiles : /\ v.visibilityList[i] = visible
                                       /\ v.actor_profile[i].visibility = visible
    /\ id = "2" => /\ v.visibilityDEM[0] = visible
                   /\ v.actor_dem[0].visibility = visible
                   /\ v.visibilityCMD[0] = visible
                   /\ v.actor_cmd[0].visibility = visible

\* opacities and colour ranges of all actors
Appearance(ap, ad, ac) ==
    <<[i \in Profiles |-> <<ap[i].opacity, ap[i].scalar_range>>],
      ad[0].opacity, ac[0].opacity, ac[0].scalar_range>>

\* C1: a group toggle (visibility_change with id "1" or "2") calls
\* ctrl.view_update exactly once, and that one redraw sees every layer of the
\* group updated.
C1_GroupToggleOneRedraw ==
    (op.name = "visibility_change" /\ op.id \in {"1", "2"}) =>
        /\ Len(views) = 1
        /\ GroupAt(views[1], op.id, op.visible)

\* the callback of this step is called with the value its layers already hold
CalledWithHeldValue ==
    \/ /\ op'.name = "update_profile_visibility"
       /\ actor_profile[op'.index].visibility = op'.visible
       /\ visibilityList[op'.index] = op'.visible
    \/ /\ op'.name = "update_DEM_visibility"
       /\ actor_dem[0].visibility = op'.visible
    \/ /\ op'.name = "update_CMD_visibility"
       /\ actor_cmd[0].visibility = op'.visible
    \/ /\ op'.name = "visibility_change"
       /\ op'.id \in {"1", "2"}
       /\ GroupAt(Snapshot(Scene), op'.id, op'.visible)
    \/ /\ op'.name = "update_opacity_dem"
       /\ actor_dem[0].opacity = op'.value
    \/ /\ op'.name = "update_opacity_cmd"
       /\ actor_cmd[0].opacity = op'.value
    \/ /\ op'.name = "set_vel_range"
       /\ \A j \in Profiles : actor_profile[j].scalar_range = op'.range
    \/ /\ op'.name = "set_res_range"
       /\ actor_cmd[0].scalar_range = op'.range

\* C2: a setter called with the value the layer already holds emits no
\* redraw signal.
C2_NoOpSuppression == [][CalledWithHeldValue => views' = <<>>]_vars

\* C3: every redraw of a callback sees the scene with all mutations of the
\* callback applied; during a group toggle to v every redraw sees the whole
\* group at v.
C3_NoRedrawInFlight ==
    \A k \in 1 .. Len(views) :
        /\ views[k] = Snapshot(Scene)
        /\ op.name = "visibility_change" => GroupAt(views[k], op.id, op.visible)

\* C4: a toggle of group "1" sets the visibility of every profile layer and
\* leaves the visibility of DEM and CMD, and every opacity and colour range,
\* unchanged; a toggle of group "2" leaves the visibility of every profile
\* unchanged.
C4_GroupToggleFrame ==
    [][op'.name = "visibility_change" =>
          /\ Appearance(actor_profile', actor_dem', actor_cmd')
               = Appearance(actor_profile, actor_dem, actor_cmd)
          /\ op'.id = "1" =>
                /\ GroupAt(Snapshot(Scene)', "1", op'.visible)
                /\ visibilityDEM' = visibilityDEM /\ visibilityCMD' = visibilityCMD
                /\ actor_dem' = actor_dem /\ actor_cmd' = actor_cmd
          /\ op'.id = "2" =>
                /\ visibilityList' = visibilityList
                /\ actor_profile' = actor_profile]_vars

C4_Witness ==
    /\ op.name = "visibility_change" /\ op.id = "1" /\ op.visible = FALSE
    /\ \A i \in Profiles : ~visibilityList[i] /\ ~actor_profile[i].visibility
    /\ visibilityDEM[0] /\ actor_dem[0].visibility
    /\ visibilityCMD[0] /\ actor_cmd[0].visibility
    /\ actor_dem[0].opacity = 5

\* C5: a colour-range change with min > max fails with InvalidRangeError,
\* leaves the scalar range of every actor as it was and emits no redraw.
C5_InvalidRangeRejected ==
    [][(op'.name \in {"set_vel_range", "set_res_range"} /\ op'.range[1] > op'.range[2]) =>
          /\ op'.raised = "InvalidRangeError"
          /\ Appearance(actor_profile', actor_dem', actor_cmd')
               = Appearance(actor_profile, actor_dem, actor_cmd)
          /\ views' = <<>>]_vars

Clamp01(value) == IF value < 0 THEN 0 ELSE IF value > 10 THEN 10 ELSE value

C7_InitialDefaults ==
    op.name = "none" =>
        /\ \A i \in Profiles : /\ visibilityList[i] /\ actor_profile[i].visibility
                               /\ actor_profile[i].opacity = 10
                               /\ actor_profile[i].scalar_range = VelDataRange
        /\ visibilityDEM[0] /\ actor_dem[0].visibility
        /\ visibilityCMD[0] /\ actor_cmd[0].visibility
        /\ actor_dem[0].opacity = 10 /\ actor_cmd[0].opacity = 10
        /\ actor_cmd[0].scalar_range = ResDataRange
        /\ actor_dem[0].opacity = mnt_opacity
        /\ actor_cmd[0].opacity = cmd_opacity

\* visibilities of all layers, state lists and actors, but those of the
\* profiles in `but`, of the DEM when butDem and of the CMD when butCmd
VisibilitiesBut(vl, vd, vc, ap, ad, ac, but, butDem, butCmd) ==
    <<[i \in Profiles \ but |-> <<vl[i], ap[i].visibility>>],
      IF butDem THEN <<>> ELSE <<vd[0], ad[0].visibility>>,
      IF butCmd THEN <<>> ELSE <<vc[0], ac[0].visibility>>>>

\* the step leaves every visibility but those excepted unchanged
OthersKeep(but, butDem, butCmd) ==
    VisibilitiesBut(visibilityList', visibilityDEM', visibilityCMD',
                    actor_profile', actor_dem', actor_cmd', but, butDem, butCmd)
    = VisibilitiesBut(visibilityList, visibilityDEM, visibilityCMD,
                      actor_profile, actor_dem, actor_cmd, but, butDem, butCmd)

\* C8: a single-layer toggle to v emits exactly one redraw, which sees both
\* the state list entry and the actor of the layer at v, and leaves the
\* visibility of every other layer unchanged.
C8_SingleToggle ==
    [][/\ op'.name = "update_profile_visibility" =>
             /\ Len(views') = 1
             /\ views'[1].visibilityList[op'.index] = op'.visible
             /\ views'[1].actor_profile[op'.index].visibility = op'.visible
             /\ views'[1] = Snapshot(Scene)'
             /\ OthersKeep({op'.index}, FALSE, FALSE)
       /\ op'.name = "update_DEM_visibility" =>
             /\ Len(views') = 1
             /\ views'[1].visibilityDEM[0] = op'.visible
             /\ views'[1].actor_dem[0].visibility = op'.visible
             /\ views'[1] = Snapshot(Scene)'
             /\ OthersKeep({}, TRUE, FALSE)
       /\ op'.name = "update_CMD_visibility" =>
             /\ Len(views') = 1
             /\ views'[1].visibilityCMD[0] = op'.visible
             /\ views'[1].actor_cmd[0].visibility = op'.visible
             /\ views'[1] = Snapshot(Scene)'
             /\ OthersKeep({}, FALSE, TRUE)]_vars

C8_Witness ==
    /\ op.name = "update_profile_visibility" /\ op.index = 0 /\ op.visible = FALSE
    /\ Len(views) = 1
    /\ ~visibilityList[0] /\ ~actor_profile[0].visibility
    /\ visibilityList[NumProfiles - 1] /\ actor_profile[NumProfiles - 1].visibility
    /\ ~visibilityDEM[0] /\ visibilityCMD[0]

\* raster point j is at minimum distance from DEM point t
IsNearest(j, t) ==
    \A k \in 1 .. Len(xy_list) : Dist2(xy_list[j], t) <= Dist2(xy_list[k], t)

\* C9: the resampled resistivity has one value per DEM point, and each is
\* the value of a raster point at minimum Euclidean distance from that DEM
\* point.
C9_NearestNeighbour ==
    pc = "serving" =>
        /\ Len(cmd_interp) = Len(xy_dem)
        /\ \A i \in 1 .. Len(xy_dem) :
              \E j \in 1 .. Len(xy_list) :
                  /\ cmd_interp[i] = array_cmd[j]
                  /\ IsNearest(j, xy_dem[i])

C9_Witness ==
    /\ pc = "serving"
    /\ xy_list = <<<<0, 0>>, <<MaxX, 0>>>> /\ array_cmd = <<5, 50>>
    /\ xy_dem = <<<<0, 1>>, <<MaxX, 1>>>>
    /\ cmd_interp = <<5, 50>>

\* C10: after every completed callback the state lists and the actors agree
\* on the visibility of every layer.
C10_MirrorConsistency ==
    /\ \A i \in Profiles : visibilityList[i] = actor_profile[i].visibility
    /\ visibilityDEM[0] = actor_dem[0].visibility
    /\ visibilityCMD[0] = actor_cmd[0].visibility

C10_Witness ==
    /\ op.name = "visibility_change" /\ op.id = "2" /\ op.visible = TRUE
    /\ visibilityDEM[0] /\ visibilityCMD[0]
    /\ ~visibilityList[0] /\ visibilityList[NumProfiles - 1]
    /\ Len(views) = 3

====
